---- MODULE Spec2Model ----
(***************************************************************************)
(* The on-disk audio cache of sudio: the binary writer                     *)
(* (write_to_cached_file), the cache entry resolver (handle_cached_record) *)
(* and the synchronizer (synchronize_audio) it calls.                      *)
(*                                                                         *)
(* A file is a sequence of bytes (0..255).  A handle is a record           *)
(* [name, pos]; name 0 stands for "no handle" / None.                      *)
(***************************************************************************)
EXTENDS Integers, Sequences, FiniteSets, TLC

\* ------------------------------------------------------------------ bounds

\* Number of paths the path service can yield.
NPaths == 2

\* Number of handle_cached_record calls in one behaviour.
MaxCalls == 2

\* data_chunk of the writer, scaled down (the default is 1e6 bytes).
DataChunk == 3

\* ------------------------------------------------------- program constants

\* master_obj.__class__.CACHE_INFO: the header's encoded width, 4 fields of 8 bytes.
CACHE_INFO == 32

\* width of one 'u8' header field in bytes (head_dtype).
U8 == 8

Paths == 1..NPaths

NoPath == 0

\* ------------------------------------------------------------ byte helpers

RECURSIVE ToLE(_, _)
\* little-endian encoding of v in n bytes (numpy '<uN'/'<iN' tobytes)
ToLE(v, n) ==
    IF n = 0 THEN <<>> ELSE <<v % 256>> \o ToLE(v \div 256, n - 1)

RECURSIVE FromLE(_)
\* little-endian decoding of a byte string as one unsigned integer
FromLE(b) ==
    IF b = <<>> THEN 0 ELSE Head(b) + 256 * FromLE(Tail(b))

RECURSIVE Flatten(_)
\* the concatenation of a sequence of byte strings
Flatten(ss) ==
    IF ss = <<>> THEN <<>> ELSE Head(ss) \o Flatten(Tail(ss))

Min(a, b) == IF a < b THEN a ELSE b

Zeros(n) == [i \in 1..n |-> 0]

\* bytes [from+1 .. to] of b (Python b[from:to])
Slice(b, from, to) ==
    IF Min(to, Len(b)) <= from THEN <<>> ELSE SubSeq(b, from + 1, Min(to, Len(b)))

\* ------------------------------------------------------------ header codec

\* EncodeHead, writing the values in the reverse order
EncodeHead_Reversed(head) ==
    Flatten([i \in 1..Len(head) |-> ToLE(head[Len(head) + 1 - i], U8)])

\* np.asarray(head, dtype='u8') as written by file.write: each value as 8
\* little-endian bytes, in argument order.
EncodeHead(head) ==
    Flatten([i \in 1..Len(head) |-> ToLE(head[i], U8)])

\* np.frombuffer(cache_info, dtype='u8') raises ValueError when the buffer
\* size is not a multiple of the element size.
FromBufferOk(b, width) == width > 0 /\ Len(b) % width = 0

\* np.frombuffer(b, dtype='u8').tolist()
FromBufferU8(b) ==
    [i \in 1..(Len(b) \div U8) |-> FromLE(SubSeq(b, (i - 1) * U8 + 1, i * U8))]

\* the unpacking "csize, cframe_rate, csample_format, cnchannels = ..." raises
\* ValueError unless exactly four values were decoded.
DecodeOk(b) == FromBufferOk(b, U8) /\ Len(b) \div U8 = 4

\* ------------------------------------------------------------ file helpers

NoHandle == [name |-> NoPath, pos |-> 0]

\* file.seek(offset, whence)
SeekPos(pos, size, offset, whence) ==
    CASE whence = 0 -> offset
      [] whence = 1 -> pos + offset
      [] OTHER      -> size + offset

\* file.truncate(): resize to the current position
TruncateAt(content, pos) ==
    IF pos <= Len(content) THEN Slice(content, 0, pos)
    ELSE content \o Zeros(pos - Len(content))

\* file.write(bytes) at position pos
WriteAt(content, pos, bytes) ==
    IF pos >= Len(content) THEN content \o Zeros(pos - Len(content)) \o bytes
    ELSE Slice(content, 0, pos) \o bytes
         \o Slice(content, pos + Len(bytes), Len(content))

\* the chunks "buffer = data.read(data_chunk); while buffer: ..." yields
RECURSIVE Chunks(_, _)
Chunks(bytes, n) ==
    IF bytes = <<>> THEN <<>>
    ELSE <<Slice(bytes, 0, n)>> \o Chunks(Slice(bytes, n, Len(bytes)), n)

\* open(name, mode) succeeds: 'wb+' creates the file, 'rb+' needs it to exist;
\* a file another process holds exclusively cannot be opened.
CanOpen(w, name, mode) ==
    /\ name \in Paths
    /\ w.hold[name] # "exclusive"
    /\ mode = "rb+" => name \in w.exists

\* the world after open(name, mode): 'wb+' truncates to zero length
Opened(w, name, mode) ==
    IF mode = "wb+"
    THEN [w EXCEPT !.fs[name] = <<>>, !.exists = @ \cup {name}]
    ELSE w

\* ------------------------------------------------------------ binary writer

\* One step of the writer acting on st = [w, file, size, trace].
Step(st, op, content, pos, wrote) ==
    [w     |-> [st.w EXCEPT !.fs[st.file.name] = content],
     file  |-> [st.file EXCEPT !.pos = pos],
     size  |-> st.size + wrote,
     trace |-> Append(st.trace, [op |-> op, at |-> st.file.pos, n |-> wrote])]

Cur(st) == st.w.fs[st.file.name]

PreSeek(st, a) ==
    IF a.pre_seek = <<>> THEN st
    ELSE Step(st, "pre_seek", Cur(st),
              SeekPos(st.file.pos, Len(Cur(st)), a.pre_seek[1], a.pre_seek[2]), 0)

PreTruncate(st, a) ==
    IF ~a.pre_truncate THEN st
    ELSE Step(st, "pre_truncate", TruncateAt(Cur(st), st.file.pos), st.file.pos, 0)

PreFlush(st, a) ==
    IF ~a.pre_flush THEN st ELSE Step(st, "pre_flush", Cur(st), st.file.pos, 0)

\* size = file.write(np.asarray(head, dtype=head_dtype))
WriteHead(st, a) ==
    IF a.head = <<>> THEN st
    ELSE LET b == EncodeHead(a.head)
         IN  Step(st, "head", WriteAt(Cur(st), st.file.pos, b),
                  st.file.pos + Len(b), Len(b))

RECURSIVE WriteChunks(_, _)
WriteChunks(st, chunks) ==
    IF chunks = <<>> THEN st
    ELSE WriteChunks(Step(st, "data", WriteAt(Cur(st), st.file.pos, Head(chunks)),
                          st.file.pos + Len(Head(chunks)), Len(Head(chunks))),
                     Tail(chunks))

\* "if data:": bytes are written at once when not empty; a handle is streamed
\* in chunks of data_chunk bytes until it is exhausted.
WriteData(st, a) ==
    CASE a.data.kind = "bytes" /\ a.data.bytes # <<>> ->
           WriteChunks(st, <<a.data.bytes>>)
      [] a.data.kind = "handle" ->
           WriteChunks(st, Chunks(a.data.bytes, DataChunk))
      [] OTHER -> st

AfterSeek(st, a) ==
    IF a.after_seek = <<>> THEN st
    ELSE Step(st, "after_seek", Cur(st),
              SeekPos(st.file.pos, Len(Cur(st)), a.after_seek[1], a.after_seek[2]), 0)

AfterFlush(st, a) ==
    IF ~a.after_flush THEN st ELSE Step(st, "after_flush", Cur(st), st.file.pos, 0)

\* Target, taking the path first
Target_PathFirst(a) ==
    CASE a.file_name # NoPath          -> "name"
      [] a.buffered_random # NoHandle -> "handle"
      [] OTHER                         -> "error"

\* which target the writer uses: the handle when one is given, else the
\* path, else the call fails
Target(a) ==
    CASE a.buffered_random # NoHandle -> "handle"
      [] a.file_name # NoPath          -> "name"
      [] OTHER                         -> "error"

\* WriterSteps, truncating after the header is written
WriterSteps_TruncateLate(st, a) ==
    AfterFlush(AfterSeek(WriteData(PreTruncate(WriteHead(
        PreFlush(PreSeek(st, a), a), a), a), a), a), a)

\* lines 56-81: the steps in the order of the code
WriterSteps(st, a) ==
    AfterFlush(AfterSeek(WriteData(WriteHead(
        PreFlush(PreTruncate(PreSeek(st, a), a), a), a), a), a), a)

\* write_to_cached_file(*head, data, file_name, file_mode, buffered_random,
\*                      pre_truncate, pre_seek, after_seek, pre_flush,
\*                      after_flush) in world w.
\* err: "none", "ValueError" (no target) or "OSError" (open failed).
write_to_cached_file(w, a) ==
    LET t == Target(a)
        failed(e) == [err |-> e, w |-> w, file |-> NoHandle, size |-> 0,
                      trace |-> <<>>]
    IN  CASE t = "error" -> failed("ValueError")
          [] t = "name" /\ ~CanOpen(w, a.file_name, a.file_mode) -> failed("OSError")
          [] OTHER ->
               LET st0 == [w     |-> IF t = "name"
                                     THEN Opened(w, a.file_name, a.file_mode)
                                     ELSE w,
                           file  |-> IF t = "name"
                                     THEN [name |-> a.file_name, pos |-> 0]
                                     ELSE a.buffered_random,
                           size  |-> 0,
                           trace |-> <<>>]
                   st  == WriterSteps(st0, a)
               IN  [err |-> "none", w |-> st.w, file |-> st.file,
                    size |-> st.size, trace |-> st.trace]

\* -------------------------------------------------------- sample formats

\* Audio.get_sample_size(format): bytes per sample of a format tag; tag 1 is
\* the 2-byte signed integer format, tag 2 a 1-byte signed integer format.
\* 0 stands for "no known width" (the lookup fails); the tag None is
\* written 0, as in the header.
get_sample_size(fmt) ==
    CASE fmt = 1 -> 2
      [] fmt = 2 -> 1
      [] OTHER   -> 0

Pow256(w) == IF w = 1 THEN 256 ELSE 65536

\* np.frombuffer(o, '<iW'): the signed samples of a byte string
Samples(o, w) ==
    [i \in 1..(Len(o) \div w) |->
        LET u == FromLE(SubSeq(o, (i - 1) * w + 1, i * w))
        IN  IF 2 * u >= Pow256(w) THEN u - Pow256(w) ELSE u]

\* data.astype('<iW').tobytes(): wraps each sample to W bytes
ToBytes(data, w) ==
    Flatten([i \in 1..Len(data) |-> ToLE(data[i] % Pow256(w), w)])

\* data[i::step] on a 1-D array (i counted from 0)
Stride(data, i, step) ==
    [k \in 1..((Len(data) - i + step - 1) \div step) |-> data[i + (k - 1) * step + 1]]

\* samplerate.resample(stream, target/current): the resampling capability,
\* taken as producing Len * target / current samples that follow the input.
Resample(stream, target, current) ==
    [k \in 1..((Len(stream) * target) \div current) |->
        stream[((k - 1) * current) \div target + 1]]

\* shuffle2d_channels(rows): per-channel streams to one interleaved sequence
shuffle2d_channels(rows) ==
    LET c == Len(rows)
        n == Len(rows[1])
    IN  [k \in 1..(n * c) |-> rows[((k - 1) % c) + 1][((k - 1) \div c) + 1]]

\* ------------------------------------------------------------ synchronizer

\* ChannelStep, leaving rec['nchannels'] at 1 after the upmix
ChannelStep_NoUpmix(data, cur, nchannels) ==
    IF cur = 1
    THEN [err |-> "none", rows |-> <<data>>, twoD |-> FALSE, nch |-> cur]
    ELSE LET streams == [i \in 1..nchannels |-> Stride(data, i - 1, cur)]
             bad(e)  == [err |-> e, rows |-> <<>>, twoD |-> TRUE, nch |-> cur]
         IN  CASE cur = 0 -> bad("ValueError")
               [] nchannels # 2 -> bad("TypeError")
               [] Len(streams[1]) # Len(streams[2]) -> bad("ValueError")
               [] OTHER -> [err |-> "none", rows |-> streams, twoD |-> TRUE,
                            nch |-> cur]

\* ChannelStep, striding by the target channel count
ChannelStep_TargetStride(data, cur, nchannels) ==
    IF cur = 1
    THEN IF nchannels > cur
         THEN [err |-> "none", rows |-> [i \in 1..nchannels |-> data],
               twoD |-> TRUE, nch |-> nchannels]
         ELSE [err |-> "none", rows |-> <<data>>, twoD |-> FALSE, nch |-> cur]
    ELSE LET streams == [i \in 1..nchannels |-> Stride(data, i - 1, nchannels)]
             bad(e)  == [err |-> e, rows |-> <<>>, twoD |-> TRUE, nch |-> cur]
         IN  CASE cur = 0 -> bad("ValueError")
               [] nchannels # 2 -> bad("TypeError")
               [] Len(streams[1]) # Len(streams[2]) -> bad("ValueError")
               [] OTHER -> [err |-> "none", rows |-> streams, twoD |-> TRUE,
                            nch |-> cur]

\* Channel adjustment.  Result: [err, rows, twoD, nch] where nch is
\* rec['nchannels'] after the step.
ChannelStep(data, cur, nchannels) ==
    IF cur = 1
    THEN IF nchannels > cur
         THEN [err |-> "none", rows |-> [i \in 1..nchannels |-> data],
               twoD |-> TRUE, nch |-> nchannels]
         ELSE [err |-> "none", rows |-> <<data>>, twoD |-> FALSE, nch |-> cur]
    ELSE LET streams == [i \in 1..nchannels |-> Stride(data, i - 1, cur)]
             bad(e)  == [err |-> e, rows |-> <<>>, twoD |-> TRUE, nch |-> cur]
         IN  CASE cur = 0 -> bad("ValueError")          \* slice step of zero
               [] nchannels # 2 -> bad("TypeError")     \* np.append(*data, axis=0)
               [] Len(streams[1]) # Len(streams[2]) -> bad("ValueError")
               [] OTHER -> [err |-> "none", rows |-> streams, twoD |-> TRUE,
                            nch |-> cur]

\* Rate conversion of every row
RateStep(rows, sample_rate, frameRate) ==
    IF sample_rate = frameRate THEN rows
    ELSE [i \in 1..Len(rows) |-> Resample(rows[i], sample_rate, frameRate)]

NoBytes == [kind |-> "none", bytes |-> <<>>, name |-> NoPath]

Bytes(b) == [kind |-> "bytes", bytes |-> b, name |-> NoPath]

\* synchronize_audio(rec, nchannels, sample_rate, sample_format_id) with
\* output_data = 'byte' and rec.o the payload bytes.  Result: [err, rec].
synchronize_audio(rec, nchannels, sample_rate, sample_format_id) ==
    LET w1   == get_sample_size(rec.sampleFormat)
        w2   == get_sample_size(sample_format_id)
        fail(e) == [err |-> e, rec |-> rec]
    IN  CASE w1 = 0 -> fail("UnsupportedFormat")
          [] Len(rec.o.bytes) % w1 # 0 -> fail("ValueError")
          [] OTHER ->
             LET ch == ChannelStep(Samples(rec.o.bytes, w1), rec.nchannels, nchannels)
             IN  CASE ch.err # "none" -> fail(ch.err)
                   [] sample_rate # rec.frameRate /\ rec.frameRate = 0 ->
                        fail("ZeroDivisionError")
                   [] w2 = 0 -> fail("UnsupportedFormat")
                   [] sample_rate * nchannels = 0 -> fail("ZeroDivisionError")
                   [] OTHER ->
                        LET rows == RateStep(ch.rows, sample_rate, rec.frameRate)
                            data == IF ch.nch > 1 THEN shuffle2d_channels(rows)
                                    ELSE rows[1]
                            o    == ToBytes(data, w2)
                        IN  [err |-> "none",
                             rec |-> [o            |-> Bytes(o),
                                      size         |-> Len(o),
                                      frameRate    |-> sample_rate,
                                      nchannels    |-> nchannels,
                                      sampleFormat |-> sample_format_id,
                                      duration     |-> <<Len(o),
                                          sample_rate * nchannels * w2>>]]

\* ------------------------------------------------------------------ state

VARIABLES
    world,    \* the file system: [fs, exists, hold]
    pc,       \* position of the running handle_cached_record call
    args,     \* the call's arguments: targets, safe_load, decoder
    path,     \* path = path_server()
    cached,   \* path in cache
    new_path, \* the relocation loop's candidate
    f,        \* the handle f
    record,   \* the record
    calls,    \* handle_cached_record calls begun
    branch,   \* the branch the call took
    entry,    \* world when the call began
    atLoopExit, \* world when the relocation loop was left
    busy,     \* the probe on path failed
    decoded,  \* decoder() invocations in this call
    synced,   \* synchronize_audio invocations in this call
    touched,  \* [op, path] of every write, truncation and deletion of the call
    closed,   \* names of handles the call closed
    wcall,    \* the writer's last call: its arguments
    wout,     \* the writer's last call: its result
    opens,    \* names of the handles the call opened and has not closed
    fin,      \* a function called on its own: its arguments
    fout,     \* a function called on its own: its result
    procs,    \* two processes calling handle_cached_record at once
    identity, \* the record's kind (Series or mapping) and its name
    last      \* the entry the call before this one wrote and returned

vars == <<world, pc, args, path, cached, new_path, f, record, calls, branch,
          entry, atLoopExit, busy, decoded, synced, touched, closed, wcall, wout,
          opens, fin, fout, procs, identity, last>>

\* ----------------------------------------------------------------- inputs

Mono8k == [nchannels |-> 1, sampleFormat |-> 1, frameRate |-> 8000]

Stereo16k == [nchannels |-> 2, sampleFormat |-> 1, frameRate |-> 16000]

Stereo8kInt8 == [nchannels |-> 2, sampleFormat |-> 2, frameRate |-> 8000]

\* a header whose sample format is the placeholder 0 ("unspecified")
Mono8kNoFormat == [nchannels |-> 1, sampleFormat |-> 0, frameRate |-> 8000]

\* the target triples of a call
Targets == {Mono8k, Stereo16k, Stereo8kInt8}

\* a cache entry: header [byteSize, frameRate, sampleFormatId, channelCount]
\* followed by the payload
Entry(fmt, payload) ==
    EncodeHead(<<Len(payload), fmt.frameRate, fmt.sampleFormat, fmt.nchannels>>)
    \o payload

\* the payload a decoder returns
DecoderPayload == <<1, 0, 2, 0>>

\* the payload a caller passes in with the record
CallerPayload == <<3, 1>>

\* what a cache file holds at the start: complete entries, and entries cut
\* short of the header's width
InitFiles ==
    {Entry(Mono8k, <<1, 0, 2, 0>>),
     Entry(Stereo16k, <<1, 0, 2, 0, 3, 0, 255, 255>>),
     Entry(Mono8kNoFormat, <<1, 0>>),
     Slice(Entry(Mono8k, <<1, 0, 2, 0>>), 0, 16),
     Slice(Entry(Mono8k, <<1, 0, 2, 0>>), 0, 5)}

Holds == {"none", "shared", "exclusive"}

NoArgs ==
    [nchannels |-> 0, sampleFormat |-> 0, frameRate |-> 0, safe_load |-> FALSE,
     decoder |-> NoBytes]

NoRecord ==
    [o |-> NoBytes, size |-> 0, frameRate |-> 0, nchannels |-> 0,
     sampleFormat |-> 0, duration |-> <<0, 1>>]

NoWriterArgs ==
    [head |-> <<>>, data |-> NoBytes, file_name |-> NoPath, file_mode |-> "wb+",
     buffered_random |-> NoHandle, pre_truncate |-> FALSE, pre_seek |-> <<>>,
     after_seek |-> <<>>, pre_flush |-> FALSE, after_flush |-> FALSE]

NoWriterOut ==
    [err |-> "none", w |-> [fs |-> [p \in Paths |-> <<>>], exists |-> {},
                            hold |-> [p \in Paths |-> "none"]],
     file |-> NoHandle, size |-> 0, trace |-> <<>>]

\* master_obj.__class__.BUFFER_TYPE: the marker that ends a cache file's stem
BUFFER_TYPE == <<".", "b">>

\* the name of the file behind each path of the path service: in the root
\* directory, in a directory, and with no directory
PathName(p) ==
    CASE p = 1 -> <<"/", "a", ".", "b">>
      [] p = 2 -> <<"d", "\\", "c", "/", "a", "a", ".", "b">>
      [] OTHER -> <<"a", ".", "b", "a">>

Max(a, b) == IF a >= b THEN a ELSE b

\* name.find(sub): the first index (from 0) at which sub occurs, or -1
Find(name, sub) ==
    LET at == {k \in 0..(Len(name) - Len(sub)) :
                  SubSeq(name, k + 1, k + Len(sub)) = sub}
    IN  IF at = {} THEN -1 ELSE CHOOSE k \in at : \A m \in at : k <= m

\* name.rfind(ch): the last index (from 0) of the character ch, or -1
RFind(name, ch) ==
    LET at == {k \in 0..(Len(name) - 1) : name[k + 1] = ch}
    IN  IF at = {} THEN -1 ELSE CHOOSE k \in at : \A m \in at : k >= m

\* lines 215-218: the name of a Series record; name.index raises ValueError
\* when the marker does not occur
Identity(name) ==
    LET post == Find(name, BUFFER_TYPE)
        pre0 == Max(RFind(name, "\\"), RFind(name, "/"))
        pre  == IF pre0 > 0 THEN pre0 + 1 ELSE 0
    IN  [err  |-> IF post = -1 THEN "ValueError" ELSE "none",
         name |-> Slice(name, pre, post)]

\* a record whose name was not set
NoIdentity == [series |-> TRUE, set |-> FALSE, name |-> <<>>]

\* no entry was written and returned
NoLast == [name |-> NoPath, nchannels |-> 0, sampleFormat |-> 0, frameRate |-> 0,
           branch |-> "none"]

\* no function is called on its own
NoInput == [kind |-> "none"]

\* no second process runs
NoProcs == <<>>

\* The file system at the start.  Within a call only the entry at path is
\* read, so the files that exist at the start all hold the same entry; they
\* differ in which process holds them; at most one is held by another process.
Worlds ==
    {w \in [fs : [Paths -> InitFiles \cup {<<>>}], exists : SUBSET Paths,
            hold : [Paths -> Holds]] :
        /\ \A p \in Paths :
            /\ p \notin w.exists => w.fs[p] = <<>> /\ w.hold[p] = "none"
            /\ p \in w.exists => w.fs[p] # <<>>
        /\ \A p, q \in w.exists : w.fs[p] = w.fs[q]
        /\ \A p, q \in Paths : w.hold[p] # "none" /\ w.hold[q] # "none" => p = q}

Init ==
    /\ world \in Worlds
    /\ pc = "idle"
    /\ args = NoArgs
    /\ path = NoPath
    /\ cached = FALSE
    /\ new_path = NoPath
    /\ f = NoHandle
    /\ record = NoRecord
    /\ calls = 0
    /\ branch = "none"
    /\ entry = world
    /\ atLoopExit = world
    /\ busy = FALSE
    /\ decoded = 0
    /\ synced = 0
    /\ touched = {}
    /\ closed = {}
    /\ wcall = NoWriterArgs
    /\ wout = NoWriterOut
    /\ opens = {}
    /\ fin = NoInput
    /\ fout = NoInput
    /\ procs = NoProcs
    /\ identity = NoIdentity
    /\ last = NoLast

\* ---------------------------------------------------------------- resolver

\* os.rename(p, p) succeeds: the file exists and no other process holds it
RenameOk(w, p) == p \in w.exists /\ w.hold[p] = "none"

Handle(name) == [kind |-> "handle", bytes |-> <<>>, name |-> name]

\* the record a caller passes in: its format fields are set, o is None or
\* raw bytes
CallerRecord(o) ==
    [o |-> o, size |-> 0, frameRate |-> Mono8k.frameRate,
     nchannels |-> Mono8k.nchannels, sampleFormat |-> Mono8k.sampleFormat,
     duration |-> <<0, 1>>]

\* where a payload can come from: [decoder, o]: a decoder, bytes the caller
\* put in the record, or neither
Sources ==
    {[decoder |-> Bytes(DecoderPayload), o |-> NoBytes],
     [decoder |-> NoBytes, o |-> Bytes(CallerPayload)],
     [decoder |-> NoBytes, o |-> NoBytes]}

CallArgs(src) ==
    {[nchannels |-> t.nchannels, sampleFormat |-> t.sampleFormat,
      frameRate |-> t.frameRate, safe_load |-> sl, decoder |-> src.decoder] :
        t \in Targets, sl \in BOOLEAN}

\* lines 112-117: the targets are fixed, path = path_server(),
\* cache = master_obj._cache()
Begin ==
    /\ pc = "idle"
    /\ calls < MaxCalls
    /\ calls' = calls + 1
    /\ \E src \in Sources :
        /\ args' \in CallArgs(src)
        /\ record' = CallerRecord(src.o)
    /\ path' \in Paths
    /\ cached' \in BOOLEAN
    /\ pc' = "probe"
    /\ new_path' = NoPath
    /\ f' = NoHandle
    /\ branch' = "none"
    /\ entry' = world
    /\ atLoopExit' = world
    /\ busy' = FALSE
    /\ decoded' = 0
    /\ synced' = 0
    /\ touched' = {}
    /\ closed' = {}
    /\ wcall' = NoWriterArgs
    /\ wout' = NoWriterOut
    /\ opens' = {}
    /\ identity' = NoIdentity
    /\ UNCHANGED <<world, fin, fout, procs, last>>

\* line 187: path is not in the cache
ProbeNotCached ==
    /\ pc = "probe"
    /\ ~cached
    /\ pc' = "miss"
    /\ UNCHANGED <<opens, fin, fout, procs, identity, last>>
    /\ UNCHANGED <<world, args, path, cached, new_path, f, record, calls, branch,
                   entry, atLoopExit, busy, decoded, synced, touched, closed,
                   wcall, wout>>

\* lines 121-122: the probe and the open succeed
ProbeOk ==
    /\ pc = "probe"
    /\ cached
    /\ RenameOk(world, path) /\ CanOpen(world, path, "rb+")
    /\ f' = [name |-> path, pos |-> 0]
    /\ record' = [record EXCEPT !.o = Handle(path)]
    /\ atLoopExit' = world
    /\ pc' = "validate"
    /\ opens' = opens \cup {path}
    /\ UNCHANGED <<fin, fout, procs, identity, last>>
    /\ UNCHANGED <<world, args, path, cached, new_path, calls, branch, entry,
                   busy, decoded, synced, touched, closed, wcall, wout>>

\* line 123: the probe or the open raises OSError
ProbeFail ==
    /\ pc = "probe"
    /\ cached
    /\ ~(RenameOk(world, path) /\ CanOpen(world, path, "rb+"))
    /\ busy' = TRUE
    /\ pc' = "loop"
    /\ UNCHANGED <<opens, fin, fout, procs, identity, last>>
    /\ UNCHANGED <<world, args, path, cached, new_path, f, record, calls, branch,
                   entry, atLoopExit, decoded, synced, touched, closed,
                   wcall, wout>>

\* lines 125-129: the new candidate exists and passes the probe: it is
\* opened, and the loop goes on to the next candidate
LoopOpenExisting ==
    /\ pc = "loop"
    /\ \E np \in Paths :
        /\ np \in world.exists
        /\ RenameOk(world, np) /\ CanOpen(world, np, "rb+")
        /\ new_path' = np
        /\ f' = [name |-> np, pos |-> 0]
        /\ record' = [record EXCEPT !.o = Handle(np)]
    /\ opens' = opens \cup {new_path'}
    /\ UNCHANGED <<fin, fout, procs, identity, last>>
    /\ UNCHANGED <<world, pc, args, path, cached, calls, branch, entry,
                   atLoopExit, busy, decoded, synced, touched, closed,
                   wcall, wout>>

\* lines 127-128, 140-142: the new candidate exists and is busy
LoopBusy ==
    /\ pc = "loop"
    /\ \E np \in Paths :
        /\ np \in world.exists
        /\ ~(RenameOk(world, np) /\ CanOpen(world, np, "rb+"))
        /\ new_path' = np
    /\ UNCHANGED <<opens, fin, fout, procs, identity, last>>
    /\ UNCHANGED <<world, pc, args, path, cached, f, record, calls, branch,
                   entry, atLoopExit, busy, decoded, synced, touched, closed,
                   wcall, wout>>

\* the copy of lines 133-138: new_path receives every byte of path
CopyTo(w, from, to) ==
    [w EXCEPT !.fs[to] = w.fs[from], !.exists = @ \cup {to}]

\* lines 130-139: the new candidate does not exist: the entry is copied to
\* it and the loop is left
LoopCopy ==
    /\ pc = "loop"
    /\ \E np \in Paths :
        /\ np \notin world.exists
        /\ CanOpen(world, path, "rb+")
        /\ new_path' = np
        /\ world' = CopyTo(world, path, np)
        /\ f' = [name |-> np, pos |-> Len(world.fs[path])]
        /\ record' = [record EXCEPT !.o = Handle(np)]
        /\ touched' = touched \cup {[op |-> "write", path |-> np]}
    /\ atLoopExit' = world'
    /\ pc' = "validate"
    /\ opens' = opens \cup {new_path'}
    /\ UNCHANGED <<fin, fout, procs, identity, last>>
    /\ UNCHANGED <<args, path, cached, calls, branch, entry, busy, decoded,
                   synced, closed, wcall, wout>>

\* lines 133, 140-142: the new candidate does not exist and path cannot be
\* opened
LoopOriginalUnreadable ==
    /\ pc = "loop"
    /\ \E np \in Paths :
        /\ np \notin world.exists
        /\ ~CanOpen(world, path, "rb+")
        /\ new_path' = np
    /\ UNCHANGED <<opens, fin, fout, procs, identity, last>>
    /\ UNCHANGED <<world, pc, args, path, cached, f, record, calls, branch,
                   entry, atLoopExit, busy, decoded, synced, touched, closed,
                   wcall, wout>>

\* lines 144-145: f.seek(0, 0); cache_info = f.read(CACHE_INFO)
CacheInfo(w, h) == Slice(w.fs[h.name], 0, CACHE_INFO)

\* Removed, leaving the file in place
Removed_Kept(w, name) == w

\* os.remove(name)
Removed(w, name) ==
    [w EXCEPT !.fs[name] = <<>>, !.exists = @ \ {name}]

\* lines 146-152: the header does not decode: the entry is closed and
\* deleted and DecodeError raised
ValidateCorrupt ==
    /\ pc = "validate"
    /\ ~DecodeOk(CacheInfo(world, f))
    /\ f' = [f EXCEPT !.pos = Len(CacheInfo(world, f))]
    /\ closed' = closed \cup {f.name}
    /\ world' = Removed(world, f.name)
    /\ touched' = touched \cup {[op |-> "delete", path |-> f.name]}
    /\ pc' = "miss"
    /\ opens' = opens \ {f.name}
    /\ UNCHANGED <<fin, fout, procs, identity, last>>
    /\ UNCHANGED <<args, path, cached, new_path, record, calls, branch, entry,
                   atLoopExit, busy, decoded, synced, wcall, wout>>

\* lines 147, 154-159: the record takes the header's values; a sample format
\* of 0 becomes None (written 0)
FromHeader(rec, h) ==
    [rec EXCEPT !.size = h[1], !.frameRate = h[2], !.sampleFormat = h[3],
                !.nchannels = h[4]]

\* Matches, comparing the frame rate with the wrong target
Matches_WrongField(rec, a) ==
    /\ rec.nchannels = a.nchannels
    /\ rec.sampleFormat = a.sampleFormat
    /\ rec.frameRate = a.nchannels

\* lines 161-163
Matches(rec, a) ==
    /\ rec.nchannels = a.nchannels
    /\ rec.sampleFormat = a.sampleFormat
    /\ rec.frameRate = a.frameRate

\* lines 161-166: the formats agree, or safe_load is off: nothing is done
ValidateReuse ==
    /\ pc = "validate"
    /\ DecodeOk(CacheInfo(world, f))
    /\ LET rec == FromHeader(record, FromBufferU8(CacheInfo(world, f)))
       IN  /\ Matches(rec, args) \/ ~args.safe_load
           /\ record' = rec
    /\ f' = [f EXCEPT !.pos = CACHE_INFO]
    /\ branch' = "reuse"
    /\ pc' = "finish"
    /\ UNCHANGED <<opens, fin, fout, procs, identity, last>>
    /\ UNCHANGED <<world, args, path, cached, new_path, calls, entry,
                   atLoopExit, busy, decoded, synced, touched, closed,
                   wcall, wout>>

\* line 166: the formats differ and safe_load is on
ValidateMismatch ==
    /\ pc = "validate"
    /\ DecodeOk(CacheInfo(world, f))
    /\ LET rec == FromHeader(record, FromBufferU8(CacheInfo(world, f)))
       IN  /\ ~Matches(rec, args) /\ args.safe_load
           /\ record' = rec
    /\ f' = [f EXCEPT !.pos = CACHE_INFO]
    /\ branch' = "reconcile"
    /\ pc' = "reconcile"
    /\ UNCHANGED <<opens, fin, fout, procs, identity, last>>
    /\ UNCHANGED <<world, args, path, cached, new_path, calls, entry,
                   atLoopExit, busy, decoded, synced, touched, closed,
                   wcall, wout>>

\* line 168: record['o'] = f.read(), from the handle's position to the end
ReadRest(w, h) == Slice(w.fs[h.name], h.pos, Len(w.fs[h.name]))

\* lines 169-172
Synchronized ==
    synchronize_audio([record EXCEPT !.o = Bytes(ReadRest(world, f))],
                      args.nchannels, args.frameRate, args.sampleFormat)

\* RewriteArgs, passing the channel count before the sample format
RewriteArgs_Swapped(rec, data) ==
    [NoWriterArgs EXCEPT
        !.head = <<rec.size, rec.frameRate, rec.nchannels, rec.sampleFormat>>,
        !.data = data,
        !.pre_seek = <<0, 0>>,
        !.pre_truncate = TRUE,
        !.pre_flush = TRUE,
        !.after_seek = <<CACHE_INFO, 0>>,
        !.after_flush = TRUE]

\* the arguments both rewrites share (lines 180-184, 204-208)
RewriteArgs(rec, data) ==
    [NoWriterArgs EXCEPT
        !.head = <<rec.size, rec.frameRate, rec.sampleFormat, rec.nchannels>>,
        !.data = data,
        !.pre_seek = <<0, 0>>,
        !.pre_truncate = TRUE,
        !.pre_flush = TRUE,
        !.after_seek = <<CACHE_INFO, 0>>,
        !.after_flush = TRUE]

\* ReconcileArgs without the truncation
ReconcileArgs_NoTruncate(rec) ==
    [RewriteArgs(rec, rec.o) EXCEPT !.buffered_random = f, !.pre_truncate = FALSE]

\* lines 174-184
ReconcileArgs(rec) ==
    [RewriteArgs(rec, rec.o) EXCEPT !.buffered_random = f]

\* lines 168-184: the payload is synchronized and the entry rewritten in place
ReconcileOk ==
    /\ pc = "reconcile"
    /\ Synchronized.err = "none"
    /\ LET rec == Synchronized.rec
           out == write_to_cached_file(world, ReconcileArgs(rec))
       IN  /\ wcall' = ReconcileArgs(rec)
           /\ wout' = out
           /\ world' = out.w
           /\ f' = out.file
           /\ record' = [rec EXCEPT !.o = Handle(out.file.name)]
    /\ synced' = synced + 1
    /\ touched' = touched \cup {[op |-> "write", path |-> f.name]}
    /\ pc' = "finish"
    /\ UNCHANGED <<opens, fin, fout, procs, identity, last>>
    /\ UNCHANGED <<args, path, cached, new_path, calls, branch, entry,
                   atLoopExit, busy, decoded, closed>>

\* ReconcileFail, with the synchronizer's error caught like a DecodeError
ReconcileFail_Caught ==
    /\ pc = "reconcile"
    /\ Synchronized.err # "none"
    /\ synced' = synced + 1
    /\ f' = [f EXCEPT !.pos = Len(world.fs[f.name])]
    /\ pc' = "miss"
    /\ UNCHANGED <<opens, fin, fout, procs, identity, last>>
    /\ UNCHANGED <<world, args, path, cached, new_path, record, calls, branch,
                   entry, atLoopExit, busy, decoded, touched, closed,
                   wcall, wout>>

\* lines 169-172: synchronize_audio raises; the error reaches the caller
ReconcileFail ==
    /\ pc = "reconcile"
    /\ Synchronized.err # "none"
    /\ synced' = synced + 1
    /\ f' = [f EXCEPT !.pos = Len(world.fs[f.name])]
    /\ pc' = "error"
    /\ UNCHANGED <<opens, fin, fout, procs, identity, last>>
    /\ UNCHANGED <<world, args, path, cached, new_path, record, calls, branch,
                   entry, atLoopExit, busy, decoded, touched, closed,
                   wcall, wout>>

\* lines 191-192: record['o'] after "if decoder is not None"
Decoded == IF args.decoder.kind # "none" THEN args.decoder ELSE record.o

\* lines 193-196: the size of bytes is their length plus CACHE_INFO
MissSize(o) == Len(o.bytes) + CACHE_INFO

\* lines 198-208
MissArgs(rec) ==
    [RewriteArgs(rec, rec.o) EXCEPT !.file_name = path]

MissRecord == [record EXCEPT !.o = Decoded, !.size = MissSize(Decoded)]

\* lines 189-208: the payload comes from the decoder (or the caller) and a
\* fresh entry is written at path
MissOk ==
    /\ pc = "miss"
    /\ Decoded.kind = "bytes"
    /\ LET out == write_to_cached_file(world, MissArgs(MissRecord))
       IN  /\ out.err = "none"
           /\ wcall' = MissArgs(MissRecord)
           /\ wout' = out
           /\ world' = out.w
           /\ f' = out.file
           /\ record' = [MissRecord EXCEPT !.o = Handle(out.file.name)]
    /\ decoded' = decoded + (IF args.decoder.kind # "none" THEN 1 ELSE 0)
    /\ touched' = touched \cup {[op |-> "write", path |-> path]}
    /\ branch' = "miss"
    /\ pc' = "finish"
    /\ opens' = opens \cup {path}
    /\ UNCHANGED <<fin, fout, procs, identity, last>>
    /\ UNCHANGED <<args, path, cached, new_path, calls, entry, atLoopExit,
                   busy, synced, closed>>

\* lines 193-196, 51: there is no payload to take a size of (None, or the
\* closed handle of the deleted entry), or path cannot be opened
MissFail ==
    /\ pc = "miss"
    /\ \/ Decoded.kind # "bytes"
       \/ write_to_cached_file(world, MissArgs(MissRecord)).err # "none"
    /\ decoded' = decoded + (IF args.decoder.kind # "none" THEN 1 ELSE 0)
    /\ branch' = "miss"
    /\ pc' = "error"
    /\ UNCHANGED <<opens, fin, fout, procs, identity, last>>
    /\ UNCHANGED <<world, args, path, cached, new_path, f, record, calls, entry,
                   atLoopExit, busy, synced, touched, closed, wcall, wout>>

\* lines 210-212: the divisor of the duration
DurationDivisor(rec) ==
    rec.frameRate * rec.nchannels * get_sample_size(rec.sampleFormat)

\* lines 210-220: the duration is set and the record returned
FinishOk ==
    /\ pc = "finish"
    /\ get_sample_size(record.sampleFormat) # 0
    /\ DurationDivisor(record) # 0
    /\ record' = [record EXCEPT !.duration = <<record.size, DurationDivisor(record)>>]
    /\ pc' = "done"
    /\ \E series \in BOOLEAN :
        identity' = IF series
                    THEN [series |-> TRUE, set |-> TRUE,
                          name |-> Identity(PathName(f.name)).name]
                    ELSE [NoIdentity EXCEPT !.series = FALSE]
    /\ UNCHANGED <<opens, fin, fout, procs, last>>
    /\ UNCHANGED <<world, args, path, cached, new_path, f, calls, branch, entry,
                   atLoopExit, busy, decoded, synced, touched, closed,
                   wcall, wout>>

\* lines 210-212: the sample size lookup or the division raises
FinishFail ==
    /\ pc = "finish"
    /\ get_sample_size(record.sampleFormat) = 0 \/ DurationDivisor(record) = 0
    /\ pc' = "error"
    /\ UNCHANGED <<opens, fin, fout, procs, identity, last>>
    /\ UNCHANGED <<world, args, path, cached, new_path, f, record, calls, branch,
                   entry, atLoopExit, busy, decoded, synced, touched, closed,
                   wcall, wout>>

\* the entry a call that returns has written, by reconcile or by rebuild,
\* with the target triple of the call
WrittenEntry ==
    IF pc = "done" /\ branch \in {"reconcile", "miss"}
    THEN [name |-> f.name, nchannels |-> args.nchannels,
          sampleFormat |-> args.sampleFormat, frameRate |-> args.frameRate,
          branch |-> branch]
    ELSE NoLast

\* line 220 (or the raise): the call is over; the caller holds the record's
\* handle and releases it before calling again
Returning ==
    /\ pc \in {"done", "error"}
    /\ pc' = "idle"
    /\ args' = NoArgs
    /\ path' = NoPath
    /\ cached' = FALSE
    /\ new_path' = NoPath
    /\ f' = NoHandle
    /\ record' = NoRecord
    /\ branch' = "none"
    /\ entry' = world
    /\ atLoopExit' = world
    /\ busy' = FALSE
    /\ decoded' = 0
    /\ synced' = 0
    /\ touched' = {}
    /\ closed' = {}
    /\ wcall' = NoWriterArgs
    /\ wout' = NoWriterOut
    /\ opens' = {}
    /\ identity' = NoIdentity
    /\ UNCHANGED <<fin, fout, procs>>
    /\ UNCHANGED <<world, calls>>

\* line 220 (or the raise), with no note taken of the call
Return == Returning /\ UNCHANGED last

\* line 220 (or the raise), noting the entry the call wrote
ReturnNoting == Returning /\ last' = WrittenEntry

Next ==
    \/ Begin
    \/ Return
    \/ ProbeNotCached
    \/ ProbeOk
    \/ ProbeFail
    \/ LoopOpenExisting
    \/ LoopBusy
    \/ LoopCopy
    \/ LoopOriginalUnreadable
    \/ ValidateCorrupt
    \/ ValidateReuse
    \/ ValidateMismatch
    \/ ReconcileOk
    \/ ReconcileFail
    \/ MissOk
    \/ MissFail
    \/ FinishOk
    \/ FinishFail

Spec == Init /\ [][Next]_vars

\* ------------------------------------------------- the writer on its own

\* heads a caller can pass: none, one value, four values up to 2^31 - 1
Heads ==
    {<<>>, <<7>>, <<0, 0, 0, 0>>, <<4, 8000, 1, 2>>,
     <<255, 256, 65535, 65536>>, <<2147483647, 16777216, 1, 257>>}

WriterData ==
    {NoBytes, Bytes(<<>>), Bytes(<<9, 8>>),
     [kind |-> "handle", bytes |-> <<1, 2, 3, 4, 5, 6, 7>>, name |-> NoPath]}

Seeks == {<<>>, <<0, 0>>, <<2, 0>>, <<1, 1>>, <<0, 2>>}

\* the handles a caller can pass: none, or one on an existing file
WriterHandles(w) ==
    {NoHandle} \cup
    UNION {{[name |-> p, pos |-> k] : k \in {0, 3, Len(w.fs[p])}} : p \in w.exists}

WriterArgs(w) ==
    {[head |-> h, data |-> d, file_name |-> n, file_mode |-> m,
      buffered_random |-> b, pre_truncate |-> pt, pre_seek |-> ps,
      after_seek |-> as, pre_flush |-> pf, after_flush |-> af] :
        h \in Heads, d \in WriterData, n \in {NoPath} \cup Paths,
        m \in {"wb+", "rb+"}, b \in WriterHandles(w), pt \in BOOLEAN,
        ps \in Seeks, as \in {<<>>, <<CACHE_INFO, 0>>}, pf \in BOOLEAN,
        af \in BOOLEAN}

\* one call of write_to_cached_file by any caller
WriterCall ==
    /\ pc = "idle"
    /\ \E a \in WriterArgs(world) :
        /\ wcall' = a
        /\ wout' = write_to_cached_file(world, a)
    /\ world' = wout'.w
    /\ f' = wout'.file
    /\ pc' = "wrote"
    /\ UNCHANGED <<opens, fin, fout, procs, identity, last>>
    /\ UNCHANGED <<args, path, cached, new_path, record, calls, branch, entry,
                   atLoopExit, busy, decoded, synced, touched, closed>>

\* the writer's callers start from one cache file, present or not
WriterInit ==
    /\ Init
    /\ \A p \in world.exists :
        /\ \A q \in Paths : q >= p
        /\ world.hold[p] # "shared"
        /\ world.fs[p] \in {Entry(Mono8k, <<1, 0, 2, 0>>),
                            Slice(Entry(Mono8k, <<1, 0, 2, 0>>), 0, 5)}

WriterNext == WriterCall

WriterSpec == WriterInit /\ [][WriterNext]_vars

\* ----------------------------------------------------- claims on the writer

\* the file and position the writer starts from
WStartContent ==
    CASE Target(wcall) = "name" ->
           IF wcall.file_mode = "wb+" THEN <<>> ELSE entry.fs[wcall.file_name]
      [] Target(wcall) = "handle" -> entry.fs[wcall.buffered_random.name]
      [] OTHER -> <<>>

WStartPos ==
    IF Target(wcall) = "handle" THEN wcall.buffered_random.pos ELSE 0

\* the position the pre-seek sets
WSeekPos ==
    IF wcall.pre_seek = <<>> THEN WStartPos
    ELSE SeekPos(WStartPos, Len(WStartContent), wcall.pre_seek[1], wcall.pre_seek[2])

WHeadBytes == EncodeHead(wcall.head)

WDataBytes == IF wcall.data.kind = "none" THEN <<>> ELSE wcall.data.bytes

WDataWrites ==
    CASE wcall.data.kind = "handle" ->
           [i \in 1..((Len(wcall.data.bytes) + DataChunk - 1) \div DataChunk) |-> "data"]
      [] wcall.data.kind = "bytes" /\ wcall.data.bytes # <<>> -> <<"data">>
      [] OTHER -> <<>>

WExpectedOps ==
    (IF wcall.pre_seek # <<>> THEN <<"pre_seek">> ELSE <<>>)
    \o (IF wcall.pre_truncate THEN <<"pre_truncate">> ELSE <<>>)
    \o (IF wcall.pre_flush THEN <<"pre_flush">> ELSE <<>>)
    \o (IF wcall.head # <<>> THEN <<"head">> ELSE <<>>)
    \o WDataWrites
    \o (IF wcall.after_seek # <<>> THEN <<"after_seek">> ELSE <<>>)
    \o (IF wcall.after_flush THEN <<"after_flush">> ELSE <<>>)

WFinal == world.fs[wout.file.name]

WWritten == WHeadBytes \o WDataBytes

WSucceeded == pc = "wrote" /\ wout.err = "none"

\* C8: for every combination of options the writer's effects come in the
\* order pre-seek, pre-truncate, pre-flush, header, payload, post-seek,
\* post-flush: the truncation is at the position the pre-seek set and before
\* any byte is written, header and payload lie contiguously from that
\* position, the size is the number of bytes written, and the handle ends at
\* the post-seek position when one is given.
C8_WriterStepOrder ==
    WSucceeded =>
        /\ [i \in 1..Len(wout.trace) |-> wout.trace[i].op] = WExpectedOps
        /\ \A i \in 1..Len(wout.trace) :
               wout.trace[i].op \in {"pre_truncate", "pre_flush"}
                   => wout.trace[i].at = WSeekPos
        /\ \A i \in 1..Len(wout.trace) :
               wout.trace[i].op = "head" => wout.trace[i].at = WSeekPos
        /\ Slice(WFinal, WSeekPos, WSeekPos + Len(WWritten)) = WWritten
        /\ wcall.pre_truncate =>
               WFinal = TruncateAt(WStartContent, WSeekPos) \o WWritten
        /\ wout.size = Len(WWritten)
        /\ wout.file.pos =
               IF wcall.after_seek # <<>>
               THEN SeekPos(WSeekPos + Len(WWritten), Len(WFinal),
                            wcall.after_seek[1], wcall.after_seek[2])
               ELSE WSeekPos + Len(WWritten)

\* a call on a handle inside a longer file, with every option on, a header
\* and a payload streamed in several chunks
C8_Witness ==
    /\ WSucceeded
    /\ Target(wcall) = "handle"
    /\ wcall.pre_seek = <<2, 0>>
    /\ wcall.pre_truncate /\ wcall.pre_flush /\ wcall.after_flush
    /\ wcall.after_seek # <<>>
    /\ Len(wcall.head) = 4
    /\ wcall.data.kind = "handle"
    /\ Len(WStartContent) > CACHE_INFO
    /\ Len(wout.trace) > 7

WNeither == wcall.buffered_random = NoHandle /\ wcall.file_name = NoPath

WBoth == wcall.buffered_random # NoHandle /\ wcall.file_name # NoPath

WNothingDone == wout.trace = <<>> /\ world = entry

\* C9 as stated: with neither target and also with both targets the writer
\* fails with the configuration error and touches no file.
C9_ExactlyOneTarget ==
    pc = "wrote" /\ (WNeither \/ WBoth) =>
        wout.err = "ValueError" /\ WNothingDone

\* C9 amended: with neither target the writer fails with the configuration
\* error and touches no file; with both it does not fail with that error: it
\* writes through the handle and neither opens nor changes the file at
\* file_name (unless that is the handle's own file).
C9_AtLeastOneTarget ==
    pc = "wrote" =>
        /\ WNeither => wout.err = "ValueError" /\ WNothingDone
        /\ WBoth =>
            /\ wout.err = "none"
            /\ wout.file.name = wcall.buffered_random.name
            /\ \A p \in Paths \ {wcall.buffered_random.name} :
                   /\ world.fs[p] = entry.fs[p]
                   /\ (p \in world.exists) = (p \in entry.exists)

\* both targets given, naming different files, and bytes written
C9_Witness ==
    /\ pc = "wrote"
    /\ WBoth
    /\ wcall.file_name # wcall.buffered_random.name
    /\ wout.size > 0

\* the first CACHE_INFO bytes of the file, as the validate step reads them
WReadBack == CacheInfo(world, wout.file)

\* C10: a header of four fields written by the writer's header step at the
\* start of a file decodes in the resolver's validate step to the same four
\* values in the same order (fields up to 2^31 - 1).
C10_HeaderRoundTrip ==
    WSucceeded /\ Len(wcall.head) = 4 /\ WSeekPos = 0 =>
        /\ DecodeOk(WReadBack)
        /\ FromBufferU8(WReadBack) = wcall.head

\* a header with four different multi-byte fields was written and read back
C10_Witness ==
    /\ WSucceeded
    /\ wcall.head = <<2147483647, 16777216, 1, 257>>
    /\ WSeekPos = 0
    /\ FromBufferU8(WReadBack) = wcall.head

\* ---------------------------------------------------- claims on the resolver

\* the entry the call validated, as it was when the relocation loop was left
Validated == atLoopExit.fs[f.name]

\* the call reached the comparison of lines 161-166 with a decoded header
HeaderDecoded == branch \in {"reuse", "reconcile"}

\* the header's [byteSize, frameRate, sampleFormatId, channelCount]
Hdr == FromBufferU8(Slice(Validated, 0, CACHE_INFO))

HdrIsTarget ==
    /\ Hdr[4] = args.nchannels
    /\ Hdr[3] = args.sampleFormat
    /\ Hdr[2] = args.frameRate

RecordIsTarget ==
    /\ record.nchannels = args.nchannels
    /\ record.sampleFormat = args.sampleFormat
    /\ record.frameRate = args.frameRate

\* the synchronizer's output for the validated entry's payload
SyncOutput ==
    synchronize_audio(
        [NoRecord EXCEPT !.o = Bytes(Slice(Validated, CACHE_INFO, Len(Validated))),
                         !.size = Hdr[1], !.frameRate = Hdr[2],
                         !.sampleFormat = Hdr[3], !.nchannels = Hdr[4]],
        args.nchannels, args.frameRate, args.sampleFormat).rec.o.bytes

\* C1: when the entry's header decodes, differs from the target triple and
\* safe_load is on, then on return the file is exactly the header
\* [len(new payload), target rate, target format, target channels] followed
\* by the synchronizer's output, the record carries the target triple and
\* the handle is at CACHE_INFO.
C1_ReconcileRewrite ==
    pc = "done" /\ HeaderDecoded /\ ~HdrIsTarget /\ args.safe_load =>
        /\ world.fs[f.name] =
               EncodeHead(<<Len(SyncOutput), args.frameRate, args.sampleFormat,
                            args.nchannels>>) \o SyncOutput
        /\ RecordIsTarget
        /\ record.size = Len(SyncOutput)
        /\ f.pos = CACHE_INFO

\* a reconcile whose new payload is shorter than the old one has returned
C1_Witness ==
    /\ pc = "done"
    /\ branch = "reconcile"
    /\ Len(world.fs[f.name]) < Len(Validated)
    /\ Len(world.fs[f.name]) > CACHE_INFO

\* the call found a header that does not decode (lines 148-152)
CorruptFound == closed # {}

C3_ContentionRelocation ==
    pc = "done" /\ busy =>
        /\ f.name # path
        /\ atLoopExit.fs[new_path] = entry.fs[path]

\* C4: in a call whose probe reported the candidate path busy, the file at
\* that path is never written, truncated or deleted.
C4_OriginalUntouched ==
    busy =>
        /\ \A t \in touched : t.path # path
        /\ world.fs[path] = entry.fs[path]

\* the byteSize field of the header of the returned entry
StoredSize == FromBufferU8(Slice(world.fs[f.name], 0, CACHE_INFO))[1]

\* C5: after every successful call the byteSize in the file's header and the
\* record's size equal the number of payload bytes after the header.
C5_ByteSizeIsPayloadLength ==
    pc = "done" =>
        /\ StoredSize = Len(world.fs[f.name]) - CACHE_INFO
        /\ record.size = Len(world.fs[f.name]) - CACHE_INFO

C7_MissDeliversTarget ==
    /\ pc = "done"
    /\ branch = "miss"
    /\ <<args.nchannels, args.sampleFormat, args.frameRate>>
           # <<Mono8k.nchannels, Mono8k.sampleFormat, Mono8k.frameRate>>
    => /\ RecordIsTarget
       /\ FromBufferU8(Slice(world.fs[f.name], 0, CACHE_INFO)) =
              <<Len(world.fs[f.name]) - CACHE_INFO, args.frameRate,
                args.sampleFormat, args.nchannels>>

\* --------------------------------------------- the synchronizer on its own

\* the formats of a record and of a target: 1 to 3 channels, two rates, the
\* two integer formats and the placeholder 0
SyncFormats ==
    [nchannels : 1..3, sampleFormat : {0, 1, 2}, frameRate : {8000, 16000}]

\* payloads: empty, whole frames of every format, and a ragged tail
SyncPayloads ==
    {<<>>,
     <<1, 0, 2, 0>>,
     <<1, 2, 3, 4, 5, 6>>,
     <<1, 0, 254, 255, 3, 0, 4, 0, 5, 0, 250, 255>>,
     <<255, 127, 0, 128, 7>>}

\* a record as synchronize_audio receives it (cacheutil.py line 168: o is
\* the payload bytes)
SyncRecord(fmt, payload) ==
    [o |-> Bytes(payload), size |-> Len(payload), frameRate |-> fmt.frameRate,
     nchannels |-> fmt.nchannels, sampleFormat |-> fmt.sampleFormat,
     duration |-> <<0, 1>>]

SyncInputs ==
    {[kind |-> "sync", rec |-> SyncRecord(cur, p), nchannels |-> t.nchannels,
      sample_rate |-> t.frameRate, sample_format_id |-> t.sampleFormat] :
        cur \in SyncFormats, p \in SyncPayloads, t \in SyncFormats}

\* nothing but the function's arguments is set
SyncInit ==
    /\ fin \in SyncInputs
    /\ fout = NoInput
    /\ world = NoWriterOut.w
    /\ pc = "idle"
    /\ args = NoArgs
    /\ path = NoPath
    /\ cached = FALSE
    /\ new_path = NoPath
    /\ f = NoHandle
    /\ record = NoRecord
    /\ calls = 0
    /\ branch = "none"
    /\ entry = world
    /\ atLoopExit = world
    /\ busy = FALSE
    /\ decoded = 0
    /\ synced = 0
    /\ touched = {}
    /\ closed = {}
    /\ wcall = NoWriterArgs
    /\ wout = NoWriterOut
    /\ opens = {}
    /\ procs = NoProcs
    /\ identity = NoIdentity
    /\ last = NoLast

\* one call of synchronize_audio
SyncCall ==
    /\ pc = "idle"
    /\ fin.kind = "sync"
    /\ LET out == synchronize_audio(fin.rec, fin.nchannels, fin.sample_rate,
                                    fin.sample_format_id)
       IN  fout' = [kind |-> "sync", err |-> out.err, rec |-> out.rec]
    /\ pc' = "synced"
    /\ UNCHANGED <<world, args, path, cached, new_path, f, record, calls,
                   branch, entry, atLoopExit, busy, decoded, synced, touched,
                   closed, wcall, wout, opens, fin, procs, identity, last>>

SyncNext == SyncCall

SyncSpec == SyncInit /\ [][SyncNext]_vars

\* ------------------------------------------------ claims on the synchronizer

\* the call's source and target formats
SIn == fin.rec

STargetIsSource ==
    /\ fin.nchannels = SIn.nchannels
    /\ fin.sample_rate = SIn.frameRate
    /\ fin.sample_format_id = SIn.sampleFormat

\* the source's samples and the samples of the returned payload
SInSamples == Samples(SIn.o.bytes, get_sample_size(SIn.sampleFormat))

SOutSamples ==
    Samples(fout.rec.o.bytes, get_sample_size(fout.rec.sampleFormat))

\* the source format has a known width and the payload is whole samples
SWholeSamples ==
    /\ get_sample_size(SIn.sampleFormat) # 0
    /\ Len(SIn.o.bytes) % get_sample_size(SIn.sampleFormat) = 0

\* the payload is whole frames: one sample for each channel
SWholeFrames ==
    /\ SWholeSamples
    /\ Len(SInSamples) % SIn.nchannels = 0

\* C11: for every payload and every format with a known sample width, for
\* every channel count, synchronize_audio with the record's own format as
\* the target returns the same payload bytes and the same format fields,
\* without failing (the payload being whole frames of its format).
C11_FormatIdempotence ==
    pc = "synced" /\ STargetIsSource /\ SWholeFrames =>
        /\ fout.err = "none"
        /\ fout.rec.o = SIn.o
        /\ fout.rec.nchannels = SIn.nchannels
        /\ fout.rec.frameRate = SIn.frameRate
        /\ fout.rec.sampleFormat = SIn.sampleFormat

\* the call is a mono upmix: one channel to k > 1, same rate and format
SUpmix ==
    /\ SIn.nchannels = 1
    /\ fin.nchannels > 1
    /\ fin.sample_rate = SIn.frameRate
    /\ fin.sample_format_id = SIn.sampleFormat
    /\ SWholeSamples

\* C12: synchronizing a 1-channel buffer of N samples to k > 1 channels with
\* the rate and the sample format unchanged gives N*k interleaved samples in
\* which the samples at positions c, c+k, c+2k, ... are the mono stream for
\* every channel c, and the record's channel count becomes k.
C12_MonoUpmix ==
    pc = "synced" /\ SUpmix =>
        /\ fout.err = "none"
        /\ fout.rec.nchannels = fin.nchannels
        /\ Len(SOutSamples) = Len(SInSamples) * fin.nchannels
        /\ fout.rec.size = Len(SIn.o.bytes) * fin.nchannels
        /\ \A j \in 1..Len(SInSamples) : \A c \in 0..(fin.nchannels - 1) :
               SOutSamples[(j - 1) * fin.nchannels + c + 1] = SInSamples[j]

\* a mono buffer of six distinct samples has been upmixed to three channels
C12_Witness ==
    /\ pc = "synced"
    /\ SUpmix
    /\ fin.nchannels = 3
    /\ Len(SInSamples) = 6
    /\ Len(SOutSamples) = 18

\* the call de-interleaves: more than one source channel, whole samples, the
\* rate and the sample format unchanged
SDeinterleave ==
    /\ SIn.nchannels > 1
    /\ fin.sample_rate = SIn.frameRate
    /\ fin.sample_format_id = SIn.sampleFormat
    /\ SWholeSamples

\* the output is made of T streams, stream i being samples i, i+step,
\* i+2*step, ... of the source
SStreams(step) ==
    LET T == fin.nchannels
    IN  /\ Len(SOutSamples) % T = 0
        /\ \A i \in 0..(T - 1) :
               Len(SOutSamples) \div T = (Len(SInSamples) - i + step - 1) \div step
        /\ \A k \in 1..Len(SOutSamples) :
               SOutSamples[k] =
                   SInSamples[((k - 1) % T) + ((k - 1) \div T) * step + 1]

\* C18 as stated: when the source has more than one channel the samples are
\* split into T streams, stream i taking samples i, i+T, i+2T, ... with T
\* the target channel count, for every pair of source and target counts.
C18_TargetStride ==
    pc = "synced" /\ SDeinterleave =>
        /\ fout.err = "none"
        /\ SStreams(fin.nchannels)

\* C18 amended: the stride is the source channel count S; the call succeeds
\* only for a target of two channels whose two streams have the same length
\* (the sample count is not 1 modulo S), and fails for every other target.
C18_SourceStride ==
    pc = "synced" /\ SDeinterleave =>
        /\ fin.nchannels # 2 => fout.err = "TypeError"
        /\ fin.nchannels = 2 /\ Len(SInSamples) % SIn.nchannels = 1 =>
               fout.err = "ValueError"
        /\ fin.nchannels = 2 /\ Len(SInSamples) % SIn.nchannels # 1 =>
               /\ fout.err = "none"
               /\ fout.rec.nchannels = 2
               /\ SStreams(SIn.nchannels)

\* six samples of a three-channel source have been split for a two-channel
\* target
C18_Witness ==
    /\ pc = "synced"
    /\ SDeinterleave
    /\ SIn.nchannels = 3
    /\ fin.nchannels = 2
    /\ Len(SInSamples) = 6
    /\ fout.err = "none"
    /\ Len(SOutSamples) = 4

\* ------------------------------------------------- storage failures

\* the k-th of the writer's seven steps (lines 56-81)
WriterStage(st, a, k) ==
    CASE k = 1 -> PreSeek(st, a)
      [] k = 2 -> PreTruncate(st, a)
      [] k = 3 -> PreFlush(st, a)
      [] k = 4 -> WriteHead(st, a)
      [] k = 5 -> WriteData(st, a)
      [] k = 6 -> AfterSeek(st, a)
      [] OTHER -> AfterFlush(st, a)

\* the first n steps of the writer, in the order of the code
RECURSIVE WriterStagesUpTo(_, _, _)
WriterStagesUpTo(st, a, n) ==
    IF n = 0 THEN st ELSE WriterStage(WriterStagesUpTo(st, a, n - 1), a, n)

\* write_to_cached_file whose step n + 1 raises OSError (the store is full,
\* the handle was closed): the target is resolved and the first n steps are
\* done; nothing undoes them.
write_interrupted(w, a, n) ==
    LET t   == Target(a)
        st0 == [w     |-> IF t = "name" THEN Opened(w, a.file_name, a.file_mode)
                          ELSE w,
                file  |-> IF t = "name" THEN [name |-> a.file_name, pos |-> 0]
                          ELSE a.buffered_random,
                size  |-> 0,
                trace |-> <<>>]
        st  == WriterStagesUpTo(st0, a, n)
    IN  [err |-> "OSError", w |-> st.w, file |-> st.file, size |-> st.size,
         trace |-> st.trace]

\* the steps after which a failure can strike: none up to all but the last
FailPoints == 0..6

\* lines 174-184: the rewrite of the reconcile branch fails part-way; the
\* exception is no DecodeError and reaches the caller
ReconcileIOFail ==
    /\ pc = "reconcile"
    /\ Synchronized.err = "none"
    /\ \E n \in FailPoints :
        LET rec == Synchronized.rec
            out == write_interrupted(world, ReconcileArgs(rec), n)
        IN  /\ wcall' = ReconcileArgs(rec)
            /\ wout' = out
            /\ world' = out.w
            /\ f' = out.file
            /\ record' = rec
    /\ synced' = synced + 1
    /\ touched' = touched \cup {[op |-> "write", path |-> f.name]}
    /\ pc' = "error"
    /\ UNCHANGED <<args, path, cached, new_path, calls, branch, entry,
                   atLoopExit, busy, decoded, closed, opens, fin, fout, procs,
                   identity, last>>

\* lines 198-208: path is opened and the fresh write fails part-way
MissIOFail ==
    /\ pc = "miss"
    /\ Decoded.kind = "bytes"
    /\ CanOpen(world, path, "wb+")
    /\ \E n \in FailPoints :
        LET out == write_interrupted(world, MissArgs(MissRecord), n)
        IN  /\ wcall' = MissArgs(MissRecord)
            /\ wout' = out
            /\ world' = out.w
            /\ f' = out.file
    /\ record' = MissRecord
    /\ decoded' = decoded + (IF args.decoder.kind # "none" THEN 1 ELSE 0)
    /\ touched' = touched \cup {[op |-> "write", path |-> path]}
    /\ opens' = opens \cup {path}
    /\ branch' = "miss"
    /\ pc' = "error"
    /\ UNCHANGED <<args, path, cached, new_path, calls, entry, atLoopExit,
                   busy, synced, closed, fin, fout, procs, identity, last>>

FaultNext ==
    \/ Next
    \/ ReconcileIOFail
    \/ MissIOFail

\* handle_cached_record on a store whose writes can fail
FaultSpec == Init /\ [][FaultNext]_vars

\* the paths the call wrote to
Written == {t.path : t \in {u \in touched : u.op = "write"}}

\* the entry the writer was last asked to write, complete
NewEntry == EncodeHead(wcall.head) \o wcall.data.bytes

\* C13: whenever the call ends by raising (the synchronizer rejects a
\* format, or a write step fails), every cache file it wrote to is either
\* the intact old entry (a relocated file: the intact copy of it) or a
\* complete new entry: no header is left with a payload it does not describe.
C13_NoInconsistentEntry ==
    pc = "error" =>
        \A p \in Written \cap world.exists :
            \/ world.fs[p] = entry.fs[p] /\ p \in entry.exists
            \/ world.fs[p] = entry.fs[path] /\ p = new_path
            \/ world.fs[p] = NewEntry /\ wcall # NoWriterArgs

\* ------------------------------------------------- the relocation loop ends

\* Inside the loop the call runs on: every kind of iteration that can be
\* taken is taken.  The path service keeps yielding paths and yields one
\* that does not exist whenever there is one, so the copy of lines 130-139
\* is attempted, and done when it can be.
LiveSpec ==
    /\ Init
    /\ [][Next]_vars
    /\ WF_vars(LoopCopy)
    /\ WF_vars(LoopOriginalUnreadable)
    /\ WF_vars(LoopBusy)
    /\ WF_vars(LoopOpenExisting)

\* the path service can yield a path that does not exist
FreshPathExists == \E p \in Paths : p \notin world.exists

\* C14: provided the path service can yield a path that does not exist,
\* every call that enters the relocate-and-retry loop eventually leaves it,
\* for every reason the first probe can fail (also when the candidate is
\* listed in the cache but cannot be opened).
C14_LoopTerminates ==
    [](pc = "loop" /\ FreshPathExists => <>(pc # "loop"))

\* C15: within one call the decoder is invoked at most once, and only when
\* the candidate path is not in the cache or the resolved entry's header
\* failed to decode; a call that reuses or reconciles an entry whose header
\* decoded never invokes it.
C15_DecoderUse ==
    /\ decoded <= 1
    /\ decoded = 1 => ~cached \/ CorruptFound
    /\ HeaderDecoded => decoded = 0

\* a call with a decoder whose path was not in the cache has returned
C15_Witness ==
    /\ pc = "done"
    /\ ~cached
    /\ args.decoder.kind # "none"
    /\ decoded = 1

\* ------------------------------------------------------ the record's name

\* the file name of the handle the call returns
ResolvedName == PathName(f.name)

\* the file name with its whole directory prefix removed
BaseName(name) ==
    Slice(name, Max(RFind(name, "\\"), RFind(name, "/")) + 1, Len(name))

\* C16: every successful return (reuse, reconcile, rebuild, relocated or
\* not; mapping and Series records alike) sets the record's identity to the
\* resolved path's file name without its whole directory prefix, for every
\* position of the separator, and without the cache-suffix marker and what
\* follows it.
C16_IdentityOnEveryExit ==
    pc = "done" =>
        /\ identity.set
        /\ identity.name =
               Slice(BaseName(ResolvedName), 0,
                     Find(BaseName(ResolvedName), BUFFER_TYPE))

\* ------------------------------------------------------------ open handles

\* C19: when the call returns, every handle it opened is closed except the
\* one returned in the record; in particular a loop iteration whose
\* candidate exists and passes the probe makes that candidate the resolved
\* entry: the call is never still in the loop with a handle it has opened.
C19_NoLeakedHandles ==
    /\ pc = "done" => opens = {f.name}
    /\ pc = "loop" => opens = {}

\* ------------------------------------------------ one call after another

\* when the first call begins no file is locked against opening (a call on
\* such a file writes no entry), and a file cut short is cut to 5 bytes
StableInit ==
    /\ Init
    /\ \A p \in world.exists :
        /\ world.hold[p] # "exclusive"
        /\ Len(world.fs[p]) # 16

StableNext ==
    \/ Begin
    \/ ReturnNoting
    \/ ProbeNotCached
    \/ ProbeOk
    \/ ProbeFail
    \/ LoopOpenExisting
    \/ LoopBusy
    \/ LoopCopy
    \/ LoopOriginalUnreadable
    \/ ValidateCorrupt
    \/ ValidateReuse
    \/ ValidateMismatch
    \/ ReconcileOk
    \/ ReconcileFail
    \/ MissOk
    \/ MissFail
    \/ FinishOk
    \/ FinishFail

\* calls in sequence, each knowing what the one before it wrote
StableSpec == StableInit /\ [][StableNext]_vars

\* the running call is on the path of the entry the call before it wrote,
\* with the same target triple; the path is listed in the cache
SamePathAndTarget ==
    /\ pc # "idle"
    /\ last # NoLast
    /\ path = last.name
    /\ cached
    /\ args.nchannels = last.nchannels
    /\ args.sampleFormat = last.sampleFormat
    /\ args.frameRate = last.frameRate

\* C20: after a call has written an entry (by reconcile or by rebuild) and
\* returned, a later call on the same path with the same target triple and
\* the file unmodified decodes the header, does not invoke the decoder, and,
\* if the first call reconciled to that target, takes the exact-match branch
\* and rewrites nothing.
C20_StableAcrossCalls ==
    SamePathAndTarget =>
        /\ ~CorruptFound
        /\ pc # "miss"
        /\ decoded = 0
        /\ last.branch = "reconcile" =>
            /\ branch \in {"none", "reuse"}
            /\ synced = 0
            /\ wcall = NoWriterArgs
            /\ world.fs[path] = entry.fs[path]
            /\ pc \in {"finish", "done"} =>
                   world.fs[f.name] = entry.fs[path] /\ RecordIsTarget

\* a call has returned the entry that the call before it reconciled
C20_Witness ==
    /\ SamePathAndTarget
    /\ last.branch = "reconcile"
    /\ pc = "done"
    /\ branch = "reuse"
    /\ args.safe_load

\* ------------------------------------------- two processes, one candidate

Procs == {1, 2}

Other(i) == 3 - i

\* the candidate path the path service gives to both processes
RacePath == 1

\* a process before its call: the path is or is not in its cache listing,
\* its targets and safe_load are its own; it has a decoder
RaceProcs ==
    [pc : {"probe"}, cached : BOOLEAN, args : CallArgs([decoder |-> Bytes(DecoderPayload)]),
     new_path : {NoPath}, f : {NoHandle}, opens : {{}}, wrote : {{}}]

\* the candidate exists, holding any of the initial files, or does not yet
\* exist; no other path exists and no third process is there
RaceWorlds ==
    {w \in Worlds : w.exists \subseteq {RacePath}
                    /\ \A p \in Paths : w.hold[p] = "none"}

RaceInit ==
    /\ procs \in [Procs -> RaceProcs]
    /\ world \in RaceWorlds
    /\ fin = NoInput
    /\ fout = NoInput
    /\ pc = "idle"
    /\ args = NoArgs
    /\ path = NoPath
    /\ cached = FALSE
    /\ new_path = NoPath
    /\ f = NoHandle
    /\ record = NoRecord
    /\ calls = 0
    /\ branch = "none"
    /\ entry = world
    /\ atLoopExit = world
    /\ busy = FALSE
    /\ decoded = 0
    /\ synced = 0
    /\ touched = {}
    /\ closed = {}
    /\ wcall = NoWriterArgs
    /\ wout = NoWriterOut
    /\ opens = {}
    /\ identity = NoIdentity
    /\ last = NoLast

\* everything but the two processes and the files
RaceRest ==
    <<pc, args, path, cached, new_path, f, record, calls, branch, entry,
      atLoopExit, busy, decoded, synced, touched, closed, wcall, wout, opens,
      fin, fout, identity, last>>

\* lines 121, 128: os.rename(p, p) by process i raises OSError when the file
\* does not exist or the other process has it open (the rename-as-lock of
\* spec section 4.3)
RRenameOk(i, p) == p \in world.exists /\ p \notin procs[Other(i)].opens

\* line 187: the path is not in the process's cache listing
RNotCached(i) ==
    /\ procs[i].pc = "probe"
    /\ ~procs[i].cached
    /\ procs' = [procs EXCEPT ![i].pc = "miss"]
    /\ UNCHANGED <<world, RaceRest>>

\* line 121: the self-rename, one system call
RProbe(i) ==
    /\ procs[i].pc = "probe"
    /\ procs[i].cached
    /\ procs' = [procs EXCEPT ![i].pc =
                    IF RRenameOk(i, RacePath) THEN "open" ELSE "loop"]
    /\ UNCHANGED <<world, RaceRest>>

\* line 122: the open that follows the rename, another system call
ROpen(i) ==
    /\ procs[i].pc = "open"
    /\ procs' = IF CanOpen(world, RacePath, "rb+")
                THEN [procs EXCEPT ![i].pc = "validate",
                                   ![i].f = [name |-> RacePath, pos |-> 0],
                                   ![i].opens = @ \cup {RacePath}]
                ELSE [procs EXCEPT ![i].pc = "loop"]
    /\ UNCHANGED <<world, RaceRest>>

\* lines 125-129, 140-142: a candidate that exists is probed and, when the
\* probe passes, opened; the loop goes on either way
RLoopExisting(i) ==
    /\ procs[i].pc = "loop"
    /\ \E np \in world.exists :
        procs' = IF RRenameOk(i, np)
                 THEN [procs EXCEPT ![i].new_path = np,
                                    ![i].f = [name |-> np, pos |-> 0],
                                    ![i].opens = @ \cup {np}]
                 ELSE [procs EXCEPT ![i].new_path = np]
    /\ UNCHANGED <<world, RaceRest>>

\* lines 130-142: a candidate that does not exist receives a copy of the
\* entry at path and the loop is left; when path cannot be opened the loop
\* goes on
RLoopCopy(i) ==
    /\ procs[i].pc = "loop"
    /\ \E np \in Paths \ world.exists :
        IF CanOpen(world, RacePath, "rb+")
        THEN /\ world' = CopyTo(world, RacePath, np)
             /\ procs' = [procs EXCEPT
                    ![i].pc = "validate",
                    ![i].new_path = np,
                    ![i].f = [name |-> np, pos |-> Len(world.fs[RacePath])],
                    ![i].opens = @ \cup {np},
                    ![i].wrote = @ \cup {np}]
        ELSE /\ procs' = [procs EXCEPT ![i].new_path = np]
             /\ UNCHANGED world
    /\ UNCHANGED RaceRest

\* lines 144-152: the header does not decode: f is closed and the file
\* removed; os.remove raises while the other process has the file open
RValidateCorrupt(i) ==
    /\ procs[i].pc = "validate"
    /\ ~DecodeOk(CacheInfo(world, procs[i].f))
    /\ IF procs[i].f.name \in procs[Other(i)].opens
       THEN /\ procs' = [procs EXCEPT ![i].pc = "error",
                                      ![i].opens = @ \ {procs[i].f.name}]
            /\ UNCHANGED world
       ELSE /\ procs' = [procs EXCEPT ![i].pc = "miss",
                                      ![i].opens = @ \ {procs[i].f.name}]
            /\ world' = Removed(world, procs[i].f.name)
    /\ UNCHANGED RaceRest

\* lines 147-159: the record a process builds from the header it read
RHeaderRecord(i) ==
    FromHeader(CallerRecord(Handle(procs[i].f.name)),
               FromBufferU8(CacheInfo(world, procs[i].f)))

\* lines 161-166: the formats agree or safe_load is off: the process
\* returns holding f
RValidateReuse(i) ==
    /\ procs[i].pc = "validate"
    /\ DecodeOk(CacheInfo(world, procs[i].f))
    /\ Matches(RHeaderRecord(i), procs[i].args) \/ ~procs[i].args.safe_load
    /\ procs' = [procs EXCEPT ![i].pc = "done", ![i].f.pos = CACHE_INFO]
    /\ UNCHANGED <<world, RaceRest>>

\* lines 168-172 for process i
RSynchronized(i) ==
    synchronize_audio(
        [RHeaderRecord(i) EXCEPT
            !.o = Bytes(ReadRest(world, [procs[i].f EXCEPT !.pos = CACHE_INFO]))],
        procs[i].args.nchannels, procs[i].args.frameRate,
        procs[i].args.sampleFormat)

\* lines 166-184: the formats differ and safe_load is on: the payload is
\* synchronized and the entry rewritten through f
RReconcile(i) ==
    /\ procs[i].pc = "validate"
    /\ DecodeOk(CacheInfo(world, procs[i].f))
    /\ ~Matches(RHeaderRecord(i), procs[i].args) /\ procs[i].args.safe_load
    /\ IF RSynchronized(i).err # "none"
       THEN /\ procs' = [procs EXCEPT ![i].pc = "error"]
            /\ UNCHANGED world
       ELSE LET rec == RSynchronized(i).rec
                out == write_to_cached_file(world,
                           [RewriteArgs(rec, rec.o) EXCEPT
                               !.buffered_random = procs[i].f])
            IN  /\ world' = out.w
                /\ procs' = [procs EXCEPT ![i].pc = "done",
                                          ![i].f = out.file,
                                          ![i].wrote = @ \cup {out.file.name}]
    /\ UNCHANGED RaceRest

\* lines 189-208: the decoder's payload is written at path, opened 'wb+'
RMiss(i) ==
    /\ procs[i].pc = "miss"
    /\ LET o   == procs[i].args.decoder
           rec == [CallerRecord(o) EXCEPT !.size = MissSize(o)]
           out == write_to_cached_file(world,
                      [RewriteArgs(rec, rec.o) EXCEPT !.file_name = RacePath])
       IN  /\ world' = out.w
           /\ procs' = [procs EXCEPT ![i].pc = "done",
                                     ![i].f = out.file,
                                     ![i].opens = @ \cup {RacePath},
                                     ![i].wrote = @ \cup {RacePath}]
    /\ UNCHANGED RaceRest

RaceNext ==
    \E i \in Procs :
        \/ RNotCached(i)
        \/ RProbe(i)
        \/ ROpen(i)
        \/ RLoopExisting(i)
        \/ RLoopCopy(i)
        \/ RValidateCorrupt(i)
        \/ RValidateReuse(i)
        \/ RReconcile(i)
        \/ RMiss(i)

\* two processes each calling handle_cached_record once, in any interleaving
\* of their system calls
RaceSpec == RaceInit /\ [][RaceNext]_vars

\* process i has returned holding a handle on the candidate path, or has
\* written to it
Claimed(i) ==
    \/ procs[i].pc = "done" /\ procs[i].f.name = RacePath
    \/ RacePath \in procs[i].wrote

\* C17: when two processes run handle_cached_record concurrently on the
\* same candidate path (existing or not), in every interleaving at most one
\* of them ends up holding an open read-write handle on that path or
\* writing to it.
C17_ExclusiveClaim ==
    (\A i \in Procs : procs[i].pc \in {"done", "error"}) =>
        ~(Claimed(1) /\ Claimed(2))

====
